---- MODULE Spec2Model ----
(***************************************************************************)
(* A model of obdii_data.py (mizbit/pioniq): the CAN response decoder      *)
(* can_response, the retrying query_command, and the main script that      *)
(* runs the five telemetry groups and publishes their records.             *)
(*                                                                         *)
(* A raw CAN line is a sequence of hexadecimal digits, each digit a number *)
(* in 0..15; a payload is a sequence of bytes 0..255.  Python's None is    *)
(* the value None below.                                                   *)
(***************************************************************************)
EXTENDS Integers, Sequences, FiniteSets, TLC

VARIABLES
    \* ---- can_response(can_message) ----
    raw,            \* can_message[0].raw().split('\n'): the lines of the message
    line_no,        \* position of the for loop: index of the next line of raw
    data,           \* local data: None or the payload accumulated so far
    data_len,       \* local data_len
    last_idx,       \* local last_idx
    cr_pc,          \* "idle" | "loop" | "returned" | "raised"
    cr_err,         \* the exception can_response raised (NoErr when none)
    cr_trace,       \* the frame kind of every line processed so far
    cr_calls,       \* every earlier call of can_response: its argument and its outcome
    \* ---- query_command(command) ----
    command,        \* the parameter command (the name of the OBDCommand)
    command_count,  \* local command_count
    cmd_response,   \* local cmd_response
    exception,      \* local exception
    valid_response, \* local valid_response
    qc_pc,          \* "idle" | "loop" | "returned" | "raised"
    qc_calls,       \* the outcome of every connection.query of this call
    qc_sleeps,      \* every time.sleep of this call: after which attempt, how long
    qc_log,         \* every message this call gave to the logger
    \* ---- obd_connect() ----
    connection_count,  \* local connection_count
    conns,          \* every connection object obd.OBD(...) created: status, closed
    oc_sleeps,      \* the argument of every time.sleep of obd_connect
    \* ---- the main script ----
    pc,             \* "start" | "connect" | "setup" | "group" | "finally" | "close" | "done"
    connection,     \* global connection: 0 while unbound, else the index in conns
    mqtt_msgs,      \* the list mqtt_msgs
    group,          \* the number of the group whose try block is running (1..5)
    gstep,          \* the number of the query_command call the group is at
    raws,           \* the values of the responses the group has got so far
    executed,       \* the groups whose query function was entered, in order
    warnings,       \* the groups whose except clause logged a warning
    caught,         \* the exception each of these except clauses caught
    handler,        \* the except clause of the outer try that ran ("" if none)
    timestamp,      \* the time the running query function has read into its record
    published,      \* the argument of every call of publish.multiple, with its outcome
    \* ---- extract_gear(raw_can_response) ----
    gear_bits,      \* local gear_bits: raw_can_response.value[7]
    gear_str,       \* local gear_str, the letters in order
    eg_pc           \* "idle" | "call" | "returned"

cr_vars == <<raw, line_no, data, data_len, last_idx, cr_pc, cr_err, cr_trace, cr_calls>>

qc_vars == <<command, command_count, cmd_response, exception, valid_response,
             qc_pc, qc_calls, qc_sleeps, qc_log>>

oc_vars == <<connection_count, conns, oc_sleeps>>

main_vars == <<pc, connection, mqtt_msgs, group, gstep, raws, executed, warnings, caught,
               caught, handler, timestamp, published>>

eg_vars == <<gear_bits, gear_str, eg_pc>>

vars == <<cr_vars, qc_vars, oc_vars, main_vars, eg_vars>>

-----------------------------------------------------------------------------
(* Bounds of the model *)

\* the longest message made of freely chosen lines
MaxLines == 3
\* the largest number of consecutive frames of a generated multi-frame message
MaxFrames == 18
\* the largest number of calls of can_response in a row
MaxCalls == 3

(* Program constants *)

\* a raw line is 19 characters (len(line) != 19)
LineLen == 19
\* the identifier is line[0:offset]
offset == 3
\* a consecutive frame carries at most 7 bytes
FrameBytes == 7
\* the modulus of the consecutive frame index (0x10)
IdxMod == 16
\* MAX_ATTEMPTS = 3
MAX_ATTEMPTS == 3

-----------------------------------------------------------------------------
(* Python values *)

\* None, as the value of a byte sequence variable
None == <<-1>>

Min(a, b) == IF a < b THEN a ELSE b

Max(a, b) == IF a > b THEN a ELSE b

\* s[a:b] of Python: negative positions count from the end, and both are
\* clamped to the sequence
PyPos(i, n) == IF i < 0 THEN Max(i + n, 0) ELSE Min(i, n)

PySlice(s, a, b) ==
    LET lo == PyPos(a, Len(s))
        hi == PyPos(b, Len(s))
    IN  IF lo >= hi THEN <<>> ELSE SubSeq(s, lo + 1, hi)

\* int(h, 16) of a string of hexadecimal digits
RECURSIVE IntHex(_)
IntHex(h) ==
    IF Len(h) = 0 THEN 0
    ELSE 16 * IntHex(SubSeq(h, 1, Len(h) - 1)) + h[Len(h)]

\* bytes.fromhex(h) raises ValueError on an odd number of digits
FromHexRaises(h) == Len(h) % 2 = 1

\* bytes.fromhex(h): one byte for each pair of digits
FromHex(h) == [i \in 1..(Len(h) \div 2) |-> 16 * h[2 * i - 1] + h[2 * i]]

-----------------------------------------------------------------------------
(* Exceptions, named by their Python class and the source line raising them *)

NoErr == [exc |-> "", line |-> 0]

\* raise ValueError('... Invalid line length {}!=19.')
ErrLineLength == [exc |-> "ValueError", line |-> 93]

\* raise CanError("Bad frame order: ...")
ErrFrameOrder == [exc |-> "CanError", line |-> 113]

\* len(data) with data None
ErrLenOfNone == [exc |-> "TypeError", line |-> 115]

\* bytearray.fromhex of an odd number of digits
ErrFromHex == [exc |-> "ValueError", line |-> 116]

\* raise ValueError('Unexpected frame')
ErrUnexpectedFrame == [exc |-> "ValueError", line |-> 123]

\* raise ValueError("No valid response for {}. Max attempts ({}) exceeded.")
ErrNoValidResponse == [exc |-> "ValueError", line |-> 191]

\* raise ValueError("Got inconsistent data for battery Status Of Health: {}%")
ErrInconsistentSoh == [exc |-> "ValueError", line |-> 295]

\* raise ValueError("Could not get odometer value"), "... TPMS information",
\* "... external temperature value"
ErrCouldNotGet(g) ==
    [exc |-> "ValueError",
     line |-> CASE g = "odometer" -> 318 [] g = "tpms" -> 381 [] g = "ext_temp" -> 401]

\* value[i] past the end of the payload; the line is that of the first
\* subscript of the query function
ErrIndex(g) ==
    [exc |-> "IndexError",
     line |-> CASE g = "battery" -> 216 [] g = "vmcu" -> 143 [] g = "tpms" -> 367
                [] g = "ext_temp" -> 399]

\* value[...] with value None; the line is that of the first subscript
ErrNoneSubscript(g) ==
    [exc |-> "TypeError", line |-> CASE g = "battery" -> 211 [] g = "vmcu" -> 137]

-----------------------------------------------------------------------------
(* can_response *)

\* the line the for loop is at
line == raw[line_no]

\* identifier = int(line[0:offset], 16): computed and never read
identifier == IntHex(PySlice(line, 0, offset))

\* a variant that reads the last digit of the identifier
frame_type_of_identifier == IntHex(PySlice(line, offset - 1, offset))

\* frame_type = int(line[offset:offset+1], 16)
frame_type == IntHex(PySlice(line, offset, offset + 1))

\* the loop has a next line to process
CanAtLine == cr_pc = "loop" /\ line_no <= Len(raw)

\* a variant in which last_idx outlives the call
CanStartKeepingIndex(msg) ==
    /\ raw' = msg
    /\ line_no' = 1
    /\ data' = None
    /\ data_len' = 0
    /\ last_idx' = last_idx
    /\ cr_pc' = "loop"
    /\ cr_err' = NoErr
    /\ cr_trace' = <<>>

\* the call of can_response: the locals are initialised, the loop starts
CanStart(msg) ==
    /\ raw' = msg
    /\ line_no' = 1
    /\ data' = None
    /\ data_len' = 0
    /\ last_idx' = 0
    /\ cr_pc' = "loop"
    /\ cr_err' = NoErr
    /\ cr_trace' = <<>>

CanRaise(err, kind) ==
    /\ cr_pc' = "raised"
    /\ cr_err' = err
    /\ cr_trace' = Append(cr_trace, kind)
    /\ UNCHANGED <<raw, line_no, data, data_len, last_idx, cr_calls>>

\* a variant that only rejects the lines that are too long
LineTooLong(l) == Len(l) > LineLen

\* the length check of a line: len(line) != 19
BadLineLength(l) == Len(l) # LineLen

\* a variant that takes a flow control frame (3) for a consecutive frame
FrameKindFlowControl(t) ==
    CASE t = 0 -> "single"
      [] t = 1 -> "first"
      [] t \in {2, 3} -> "consecutive"
      [] OTHER -> "other"

\* the branch of the if/elif chain on frame_type
FrameKind(t) ==
    CASE t = 0 -> "single"
      [] t = 1 -> "first"
      [] t = 2 -> "consecutive"
      [] OTHER -> "other"

\* if (len(line) != 19): raise ValueError
CanBadLength ==
    /\ CanAtLine
    /\ BadLineLength(line)
    /\ CanRaise(ErrLineLength, "badlen")

\* a variant that takes every digit after the length digit, whatever data_len is
SingleFrameDataWhole(l, dl) == FromHex(PySlice(l, offset + 2, Len(l)))

\* the payload a single frame yields: bytes.fromhex(line[offset+2:data_len*2+offset+2])
SingleFrameData(l, dl) == FromHex(PySlice(l, offset + 2, dl * 2 + offset + 2))

\* frame_type == 0: single frame; break, return data
CanSingleFrame ==
    /\ CanAtLine
    /\ ~BadLineLength(line)
    /\ FrameKind(frame_type) = "single"
    /\ LET dl == IntHex(PySlice(line, offset + 1, offset + 2))
       IN  /\ data_len' = dl
           /\ data' = SingleFrameData(line, dl)
    /\ cr_pc' = "returned"
    /\ cr_trace' = Append(cr_trace, "single")
    /\ UNCHANGED <<raw, line_no, last_idx, cr_err, cr_calls>>

\* the data_len a first frame declares: int(line[offset+1:offset+4], 16)
FirstFrameLen(l) == IntHex(PySlice(l, offset + 1, offset + 4))

\* a variant in which a first frame adds its bytes to those accumulated and
\* leaves the sequence counter alone
CanFirstFrameKeeping ==
    /\ CanAtLine
    /\ ~BadLineLength(line)
    /\ FrameKind(frame_type) = "first"
    /\ data_len' = FirstFrameLen(line)
    /\ data' = (IF data = None THEN <<>> ELSE data) \o FromHex(PySlice(line, offset + 4, Len(line)))
    /\ last_idx' = last_idx
    /\ line_no' = line_no + 1
    /\ cr_trace' = Append(cr_trace, "first")
    /\ UNCHANGED <<raw, cr_pc, cr_err, cr_calls>>

\* frame_type == 1: first frame; the loop goes on
CanFirstFrame ==
    /\ CanAtLine
    /\ ~BadLineLength(line)
    /\ FrameKind(frame_type) = "first"
    /\ data_len' = FirstFrameLen(line)
    /\ data' = FromHex(PySlice(line, offset + 4, Len(line)))
    /\ last_idx' = 0
    /\ line_no' = line_no + 1
    /\ cr_trace' = Append(cr_trace, "first")
    /\ UNCHANGED <<raw, cr_pc, cr_err, cr_calls>>

\* a variant that only rejects an index that does not grow
BadFrameOrderNotGrowing(last, idx) == idx <= last

\* the order check of a consecutive frame: (last_idx + 1) % 0x10 != idx
BadFrameOrder(last, idx) == (last + 1) % IdxMod # idx

\* a variant that takes the 7 bytes of every frame, the last one too
FrameLenWhole(dl, have) == FrameBytes

\* frame_len = min(7, data_len - len(data))
FrameLen(dl, have) == Min(FrameBytes, dl - have)

\* the digits a consecutive frame contributes: line[offset+2:frame_len*2+offset+2]
FrameDigits(l, fl) == PySlice(l, offset + 2, fl * 2 + offset + 2)

\* frame_type == 2: consecutive frame
CanConsecutiveFrame ==
    /\ CanAtLine
    /\ ~BadLineLength(line)
    /\ FrameKind(frame_type) = "consecutive"
    /\ LET idx == IntHex(PySlice(line, offset + 1, offset + 2))
       IN  IF BadFrameOrder(last_idx, idx)
           THEN CanRaise(ErrFrameOrder, "consecutive")
           ELSE IF data = None
           THEN CanRaise(ErrLenOfNone, "consecutive")
           ELSE LET digits == FrameDigits(line, FrameLen(data_len, Len(data)))
                IN  IF FromHexRaises(digits)
                    THEN CanRaise(ErrFromHex, "consecutive")
                    ELSE /\ data' = data \o FromHex(digits)
                         /\ last_idx' = idx
                         /\ cr_trace' = Append(cr_trace, "consecutive")
                         /\ IF data_len = Len(data')
                            THEN cr_pc' = "returned" /\ line_no' = line_no
                            ELSE cr_pc' = "loop" /\ line_no' = line_no + 1
                         /\ UNCHANGED <<raw, data_len, cr_err, cr_calls>>

\* else: raise ValueError('Unexpected frame')
CanUnexpectedFrame ==
    /\ CanAtLine
    /\ ~BadLineLength(line)
    /\ FrameKind(frame_type) = "other"
    /\ CanRaise(ErrUnexpectedFrame, "other")

\* the for loop has consumed every line: return data
CanLoopEnd ==
    /\ cr_pc = "loop"
    /\ line_no > Len(raw)
    /\ cr_pc' = "returned"
    /\ UNCHANGED <<raw, line_no, data, data_len, last_idx, cr_err, cr_trace, cr_calls>>

\* what a finished call gave its caller: the payload returned or the exception
CanOutcome ==
    [raw |-> raw, pc |-> cr_pc, err |-> cr_err,
     data |-> IF cr_pc = "returned" THEN data ELSE None]

\* one more call of can_response, after the last one has returned or raised
CanCall(msg) ==
    /\ cr_pc \in {"returned", "raised"}
    /\ Len(cr_calls) + 1 < MaxCalls
    /\ cr_calls' = Append(cr_calls, CanOutcome)
    /\ CanStart(msg)

-----------------------------------------------------------------------------
(* Responses of connection.query *)

\* the value of a response: None, a str (what raw_string yields) or a byte
\* sequence (what can_response yields)
NoneValue == [t |-> "none", s |-> "", b |-> <<>>]

Str(x) == [t |-> "str", s |-> x, b |-> <<>>]

Bytes(x) == [t |-> "bytes", s |-> "", b |-> x]

\* cmd_response: None, or a response object with its value
NoneResponse == [null |-> TRUE, value |-> NoneValue]

Response(v) == [null |-> FALSE, value |-> v]

\* one call of connection.query(command): it raises, or returns a response
Raises == [raises |-> TRUE, response |-> NoneResponse]

Returns(r) == [raises |-> FALSE, response |-> r]

\* value == "text" of Python: a byte sequence never equals a str, b'' == "" is False
PyEqStr(v, text) == v.t = "str" /\ v.s = text

-----------------------------------------------------------------------------
(* query_command *)

\* a variant that lets a response with a null value pass
ValidResponseNullValue(r, exc) ==
    ~(\/ r.null
      \/ PyEqStr(r.value, "?")
      \/ PyEqStr(r.value, "NO DATA")
      \/ PyEqStr(r.value, "")
      \/ exc)

\* valid_response = not(cmd_response is None or cmd_response.value == "?" or
\*   cmd_response.value == "NO DATA" or cmd_response.value == "" or
\*   cmd_response.value is None or exception)
ValidResponse(r, exc) ==
    ~(\/ r.null
      \/ PyEqStr(r.value, "?")
      \/ PyEqStr(r.value, "NO DATA")
      \/ PyEqStr(r.value, "")
      \/ r.value.t = "none"
      \/ exc)

\* except Exception as ex: exception = True (the flag is never set back)
ExceptionFlag(exc, raised) == exc \/ raised

\* the argument of time.sleep after a failed attempt
SleepSeconds(count) == count

\* the call of query_command: the locals are initialised
QueryStart(cmd) ==
    /\ command' = cmd
    /\ command_count' = 0
    /\ cmd_response' = NoneResponse
    /\ exception' = FALSE
    /\ valid_response' = FALSE
    /\ qc_pc' = "loop"
    /\ qc_calls' = <<>>
    /\ qc_sleeps' = <<>>
    /\ qc_log' = <<>>

\* a variant without the except clause: an exception of connection.query
\* leaves query_command
AfterAttemptPropagates(o) == IF o.raises THEN "propagated" ELSE "loop"

\* where an iteration ends: try ... except Exception keeps every exception of
\* connection.query inside the loop
AfterAttempt(o) == "loop"

\* one iteration of the while loop, connection.query having the outcome o
QueryAttempt(o) ==
    /\ qc_pc = "loop"
    /\ ~valid_response /\ command_count < MAX_ATTEMPTS
    /\ command_count' = command_count + 1
    /\ qc_calls' = Append(qc_calls, o)
    /\ cmd_response' = IF o.raises THEN cmd_response ELSE o.response
    /\ exception' = ExceptionFlag(exception, o.raises)
    /\ valid_response' = ValidResponse(cmd_response', exception')
    /\ IF ~valid_response' /\ command_count' < MAX_ATTEMPTS
       THEN /\ qc_log' = Append(qc_log, [level |-> "warning", attempt |-> command_count'])
            /\ qc_sleeps' = Append(qc_sleeps,
                   [after |-> command_count', seconds |-> SleepSeconds(command_count')])
       ELSE UNCHANGED <<qc_log, qc_sleeps>>
    /\ qc_pc' = AfterAttempt(o)
    /\ UNCHANGED command

\* the loop is over
QueryLoopDone == qc_pc = "loop" /\ ~(~valid_response /\ command_count < MAX_ATTEMPTS)

\* if not valid_response: raise ValueError("No valid response ... Max attempts exceeded")
QueryRaise ==
    /\ QueryLoopDone
    /\ ~valid_response
    /\ qc_pc' = "raised"
    /\ UNCHANGED <<command, command_count, cmd_response, exception, valid_response,
                   qc_calls, qc_sleeps, qc_log>>

\* else: logger.debug("{} got response"); return cmd_response
QueryReturn ==
    /\ QueryLoopDone
    /\ valid_response
    /\ qc_pc' = "returned"
    /\ qc_log' = Append(qc_log, [level |-> "debug", attempt |-> command_count])
    /\ UNCHANGED <<command, command_count, cmd_response, exception, valid_response,
                   qc_calls, qc_sleeps>>

-----------------------------------------------------------------------------
(* extract_gear *)

\* gear_bits & mask, for a mask of one bit
BitSet(bits, mask) == (bits \div mask) % 2 = 1

\* the letter a mask adds to gear_str, in the order of the if statements
GearLetters == <<[mask |-> 1, letter |-> "P"], [mask |-> 2, letter |-> "R"],
                 [mask |-> 4, letter |-> "N"], [mask |-> 8, letter |-> "D"],
                 [mask |-> 16, letter |-> "B"]>>

\* gear_str after the first n if statements
RECURSIVE GearAfter(_, _)
GearAfter(bits, n) ==
    IF n = 0 THEN <<>>
    ELSE GearAfter(bits, n - 1)
         \o (IF BitSet(bits, GearLetters[n].mask) THEN <<GearLetters[n].letter>> ELSE <<>>)

\* a variant that tests the mask 0x20 for "B"
extract_gear_high_bit(bits) ==
    GearAfter(bits, 4) \o (IF BitSet(bits, 32) THEN <<"B">> ELSE <<>>)

\* extract_gear, for the byte raw_can_response.value[7]
extract_gear(bits) == GearAfter(bits, Len(GearLetters))

\* the call of extract_gear returns
ExtractGear ==
    /\ eg_pc = "call"
    /\ gear_str' = extract_gear(gear_bits)
    /\ eg_pc' = "returned"
    /\ UNCHANGED <<gear_bits, cr_vars, qc_vars, oc_vars, main_vars>>

-----------------------------------------------------------------------------
(* The commands and the groups of the main script *)

\* a variant in which query_external_temperature queries before it sets the
\* header and the receive address
GroupCommandsDataFirst(g) ==
    CASE g = "battery" ->
           <<"cmd_can_header_7e4", "cmd_can_receive_address_7ec", "cmd_bms_2101",
             "cmd_bms_2102", "cmd_bms_2103", "cmd_bms_2104", "cmd_bms_2105">>
      [] g = "vmcu" ->
           <<"cmd_can_header_7e2", "cmd_can_receive_address_7ea", "cmd_vin",
             "cmd_vmcu_2101">>
      [] g = "odometer" ->
           <<"cmd_can_header_7c6", "cmd_can_receive_address_7ec", "cmd_can_filter_7ce",
             "cmd_odometer">>
      [] g = "tpms" ->
           <<"cmd_can_receive_address_7a8", "cmd_can_header_7a0", "cmd_tpms_22c00b">>
      [] g = "ext_temp" ->
           <<"cmd_ext_temp", "cmd_can_header_7e6", "cmd_can_receive_address_7ee">>

\* the commands each query function issues, in the order of its query_command calls
GroupCommands(g) ==
    CASE g = "battery" ->
           <<"cmd_can_header_7e4", "cmd_can_receive_address_7ec", "cmd_bms_2101",
             "cmd_bms_2102", "cmd_bms_2103", "cmd_bms_2104", "cmd_bms_2105">>
      [] g = "vmcu" ->
           <<"cmd_can_header_7e2", "cmd_can_receive_address_7ea", "cmd_vin",
             "cmd_vmcu_2101">>
      [] g = "odometer" ->
           <<"cmd_can_header_7c6", "cmd_can_receive_address_7ec", "cmd_can_filter_7ce",
             "cmd_odometer">>
      [] g = "tpms" ->
           <<"cmd_can_receive_address_7a8", "cmd_can_header_7a0", "cmd_tpms_22c00b">>
      [] g = "ext_temp" ->
           <<"cmd_can_header_7e6", "cmd_can_receive_address_7ee", "cmd_ext_temp">>

\* the try blocks of the main script, in order
GroupOrder == <<"battery", "vmcu", "odometer", "tpms", "ext_temp">>

\* the commands registered with the decoder can_response (the others: raw_string)
CanCommands ==
    {"cmd_bms_2101", "cmd_bms_2102", "cmd_bms_2103", "cmd_bms_2104", "cmd_bms_2105",
     "cmd_odometer", "cmd_vin", "cmd_vmcu_2101", "cmd_tpms_22c00b", "cmd_ext_temp"}

\* bytes_to_int(bs): big-endian, 0 for no byte
RECURSIVE bytes_to_int(_)
bytes_to_int(bs) ==
    IF Len(bs) = 0 THEN 0
    ELSE 256 * bytes_to_int(SubSeq(bs, 1, Len(bs) - 1)) + bs[Len(bs)]

\* value[i] raises IndexError unless 0 <= i < len(value)
HasIndexes(v, is) == \A i \in is : i < Len(v)

\* value[i], the positions of Python counting from 0
At(v, i) == v[i + 1]

DecodeOk(rec) == [exc |-> "", line |-> 0, record |-> rec]

DecodeRaises(err) == [exc |-> err.exc, line |-> err.line, record |-> [none |-> TRUE]]

\* soh = bytes_to_int(raw_2105.value[27:29]) / 10.0, in tenths of a percent
SohTenths(v2105) == bytes_to_int(PySlice(v2105, 27, 29))

\* a variant that compares the whole percents only
SohConsistentWholePercent(tenths) == tenths \div 10 <= 100

\* if (soh <= 100)
SohConsistent(tenths) == tenths <= 1000

\* query_battery_information after its queries: vs holds the values of
\* raw_2101 .. raw_2105 at positions 3..7
DecodeBattery(vs) ==
    LET v2101 == vs[3].b
        v2105 == vs[7].b
    IN  IF \E k \in 3..7 : vs[k].t = "none"
        THEN DecodeRaises(ErrNoneSubscript("battery"))
        ELSE IF SohConsistent(SohTenths(v2105))
        THEN IF /\ HasIndexes(v2101, {6, 11, 29, 30, 31, 52})
                /\ \A k \in 4..6 : HasIndexes(vs[k].b, 6..37)
                /\ HasIndexes(v2105, {22, 25, 26, 29, 32, 33})
             THEN DecodeOk([soh |-> SohTenths(v2105),
                            socBms |-> At(v2101, 6),
                            dcBatteryCurrent |-> bytes_to_int(PySlice(v2101, 12, 14)),
                            dcBatteryVoltage |-> bytes_to_int(PySlice(v2101, 14, 16)),
                            cumulativeEnergyCharged |-> bytes_to_int(PySlice(v2101, 40, 44)),
                            cumulativeEnergyDischarged |-> bytes_to_int(PySlice(v2101, 44, 48)),
                            cumulativeChargeCurrent |-> bytes_to_int(PySlice(v2101, 32, 36)),
                            cumulativeDischargeCurrent |-> bytes_to_int(PySlice(v2101, 36, 40)),
                            cumulativeOperatingTime |-> bytes_to_int(PySlice(v2101, 48, 52)),
                            availableChargePower |-> bytes_to_int(PySlice(v2101, 7, 9)),
                            availableDischargePower |-> bytes_to_int(PySlice(v2101, 9, 11)),
                            dcBatteryCellMinDeterioration |-> bytes_to_int(PySlice(v2105, 30, 32)),
                            driveMotorSpeed |-> bytes_to_int(PySlice(v2101, 55, 57))])
             ELSE DecodeRaises(ErrIndex("battery"))
        ELSE DecodeRaises(ErrInconsistentSoh)

\* query_vmcu_information after its queries: raw_vin, raw_2101 at positions 3, 4
DecodeVmcu(vs) ==
    LET v2101 == vs[4].b
    IN  IF vs[3].t = "none" \/ vs[4].t = "none"
        THEN DecodeRaises(ErrNoneSubscript("vmcu"))
        ELSE IF HasIndexes(v2101, {7, 15, 16})
        THEN DecodeOk([gear |-> extract_gear(At(v2101, 7)),
                       mph_speed |-> At(v2101, 16) * 256 + At(v2101, 15)])
        ELSE DecodeRaises(ErrIndex("vmcu"))

\* query_odometer after its queries: raw_odometer at position 4
DecodeOdometer(vs) ==
    IF vs[4].t # "none"
    THEN DecodeOk([odometer |-> bytes_to_int(PySlice(vs[4].b, 9, 12))])
    ELSE DecodeRaises(ErrCouldNotGet("odometer"))

\* query_tpms_information after its queries: raw_tpms at position 3
DecodeTpms(vs) ==
    IF vs[3].t # "none"
    THEN IF HasIndexes(vs[3].b, {7, 8, 11, 12, 15, 16, 19, 20})
         THEN DecodeOk([tire_1_pressure |-> At(vs[3].b, 7),
                        tire_1_temperature |-> At(vs[3].b, 8) - 55])
         ELSE DecodeRaises(ErrIndex("tpms"))
    ELSE DecodeRaises(ErrCouldNotGet("tpms"))

\* query_external_temperature after its queries: ext_temp at position 3
DecodeExtTemp(vs) ==
    IF vs[3].t # "none"
    THEN IF HasIndexes(vs[3].b, {14})
         THEN DecodeOk([external_temperature |-> At(vs[3].b, 14) - 80])
         ELSE DecodeRaises(ErrIndex("ext_temp"))
    ELSE DecodeRaises(ErrCouldNotGet("ext_temp"))

\* what the rest of the group's query function does with the values it got
Decode(g, vs) ==
    CASE g = "battery" -> DecodeBattery(vs)
      [] g = "vmcu" -> DecodeVmcu(vs)
      [] g = "odometer" -> DecodeOdometer(vs)
      [] g = "tpms" -> DecodeTpms(vs)
      [] g = "ext_temp" -> DecodeExtTemp(vs)

\* except (ValueError, CanError) as err: the exceptions a group's try block catches
GroupCatches(e) == e \in {"ValueError", "CanError"}

\* a variant that does not ask the broker to retain the message
MsgNotRetained(name, payload) ==
    [topic |-> name, payload |-> payload, qos |-> 0, retain |-> FALSE]

\* {'topic': topic_prefix + name, 'payload': ..., 'qos': 0, 'retain': True}
Msg(name, payload) == [topic |-> name, payload |-> payload, qos |-> 0, retain |-> TRUE]

-----------------------------------------------------------------------------
(* obd_connect *)

CAR_CONNECTED == "Car Connected"

\* obd_connection.status(), "" while obd_connection is None
LastStatus == IF conns = <<>> THEN "" ELSE conns[Len(conns)].status

\* a variant that takes any connection object for a connected one
ConnectFailedNever(status) == FALSE

\* obd_connection.status() != OBDStatus.CAR_CONNECTED
ConnectFailed(status) == status # CAR_CONNECTED

\* the loop condition of obd_connect
ConnectLoop == ConnectFailed(LastStatus) /\ connection_count < MAX_ATTEMPTS

\* a variant that sleeps after every failed attempt, the last one too
ConnectSleepsAlways(status, count) == ConnectFailed(status)

\* the condition of the warning and the sleep after an attempt
ConnectSleeps(status, count) == ConnectFailed(status) /\ count < MAX_ATTEMPTS

\* one iteration: obd.OBD(...) yields a connection object of status st, which
\* the library has left open or closed (closed); obd_connect closes none
ConnectAttempt(st, closed) ==
    /\ pc = "connect"
    /\ ConnectLoop
    /\ connection_count' = connection_count + 1
    /\ conns' = Append(conns, [status |-> st, closed |-> closed])
    /\ oc_sleeps' = IF ConnectSleeps(st, connection_count')
                    THEN Append(oc_sleeps, connection_count')
                    ELSE oc_sleeps
    /\ UNCHANGED <<main_vars, qc_vars, cr_vars, eg_vars>>

\* return obd_connection; connection = obd_connect()
ConnectReturn ==
    /\ pc = "connect"
    /\ ~ConnectLoop
    /\ ~ConnectFailed(LastStatus)
    /\ connection' = Len(conns)
    /\ pc' = "setup"
    /\ UNCHANGED <<mqtt_msgs, group, gstep, raws, executed, warnings, caught, handler, timestamp,
                   published, oc_vars, qc_vars, cr_vars, eg_vars>>

\* raise ConnectionError(...); except ConnectionError as err
ConnectRaise ==
    /\ pc = "connect"
    /\ ~ConnectLoop
    /\ ConnectFailed(LastStatus)
    /\ handler' = "ConnectionError"
    /\ pc' = "finally"
    /\ UNCHANGED <<connection, mqtt_msgs, group, gstep, raws, executed, warnings, caught,
                   timestamp, published, oc_vars, qc_vars, cr_vars, eg_vars>>

-----------------------------------------------------------------------------
(* The main script *)

\* the start of the outer try: the state message is added to mqtt_msgs
MainStart ==
    /\ pc = "start"
    /\ mqtt_msgs' = mqtt_msgs \o <<Msg("state", [state |-> "ON"])>>
    /\ pc' = "connect"
    /\ UNCHANGED <<connection, group, gstep, raws, executed, warnings, caught, handler,
                   timestamp, published, oc_vars, qc_vars, cr_vars, eg_vars>>

\* the commands are created and added to connection.supported_commands
SetupCommands ==
    /\ pc = "setup"
    /\ pc' = "group"
    /\ group' = 1
    /\ gstep' = 0
    /\ UNCHANGED <<connection, mqtt_msgs, raws, executed, warnings, caught, handler, timestamp,
                   published, oc_vars, qc_vars, cr_vars, eg_vars>>

\* a statement between connection = obd_connect() and the first group (the
\* logging of the commands, the creation and registration of the custom
\* commands) raises: the except Exception clause of the outer try logs it
SetupRaises ==
    /\ pc = "setup"
    /\ handler' = "Exception"
    /\ pc' = "finally"
    /\ UNCHANGED <<connection, mqtt_msgs, group, gstep, raws, executed, warnings, caught,
                   timestamp, published, oc_vars, qc_vars, cr_vars, eg_vars>>

\* time.time() as a logical clock: the group the run is at and the number of
\* responses that group has obtained
TimeAt(g, n) == [group |-> g, responses |-> n]

time == TimeAt(group, Len(raws))

\* no time read
NoTime == TimeAt(0, 0)

\* the query functions that read the time when they create their record,
\* before their first query_command (vmcu_info, ext_temp_info); the others
\* read it when they fill the record in, after their last query_command
StampsOnEntry(g) == g \in {"vmcu", "ext_temp"}

\* the name of the running group, and its commands
GroupName == GroupOrder[group]

Commands == GroupCommands(GroupName)

\* the group's try block is entered: its query function starts and calls
\* query_command for its first command
GroupStart ==
    /\ pc = "group"
    /\ gstep = 0
    /\ executed' = Append(executed, GroupName)
    /\ gstep' = 1
    /\ raws' = <<>>
    /\ timestamp' = IF StampsOnEntry(GroupName) THEN TimeAt(group, 0) ELSE timestamp
    /\ QueryStart(Commands[1])
    /\ UNCHANGED <<pc, connection, mqtt_msgs, group, warnings, caught, handler, published,
                   oc_vars, cr_vars, eg_vars>>

\* one attempt of the running query_command
GroupQueryAttempt(o) ==
    /\ pc = "group"
    /\ gstep > 0
    /\ QueryAttempt(o)
    /\ UNCHANGED <<main_vars, oc_vars, cr_vars, eg_vars>>

\* query_command returns: the query function keeps the response
GroupQueryReturn ==
    /\ pc = "group"
    /\ gstep > 0
    /\ QueryReturn
    /\ raws' = Append(raws, cmd_response.value)
    /\ UNCHANGED <<pc, connection, mqtt_msgs, group, gstep, executed, warnings, caught, handler,
                   timestamp, published, oc_vars, cr_vars, eg_vars>>

\* the next query_command call of the query function
GroupNextQuery ==
    /\ pc = "group"
    /\ qc_pc = "returned"
    /\ gstep < Len(Commands)
    /\ gstep' = gstep + 1
    /\ QueryStart(Commands[gstep + 1])
    /\ UNCHANGED <<pc, connection, mqtt_msgs, group, raws, executed, warnings, caught, handler,
                   timestamp, published, oc_vars, cr_vars, eg_vars>>

\* the statement after a group's try block: the next group, or the finally clause
AfterGroup ==
    /\ IF group < Len(GroupOrder)
       THEN group' = group + 1 /\ pc' = "group"
       ELSE group' = group /\ pc' = "finally"
    /\ gstep' = 0
    /\ raws' = <<>>
    /\ timestamp' = NoTime
    /\ command' = ""
    /\ command_count' = 0
    /\ cmd_response' = NoneResponse
    /\ exception' = FALSE
    /\ valid_response' = FALSE
    /\ qc_pc' = "idle"
    /\ qc_calls' = <<>>
    /\ qc_sleeps' = <<>>
    /\ qc_log' = <<>>

\* query_command raises its ValueError: the group's except clause logs a warning
GroupQueryRaise ==
    /\ pc = "group"
    /\ gstep > 0
    /\ QueryLoopDone
    /\ ~valid_response
    /\ GroupCatches(ErrNoValidResponse.exc)
    /\ warnings' = Append(warnings, GroupName)
    /\ caught' = Append(caught, ErrNoValidResponse)
    /\ AfterGroup
    /\ UNCHANGED <<connection, mqtt_msgs, executed, handler, published, oc_vars, cr_vars, eg_vars>>

\* every query of the group has returned
GroupQueried == pc = "group" /\ qc_pc = "returned" /\ gstep = Len(Commands)

\* the record the query function returns: the decoded fields and the
\* timestamp, read on entry or now
Record ==
    [timestamp |-> IF StampsOnEntry(GroupName) THEN timestamp ELSE time]
    @@ Decode(GroupName, raws).record

\* the query function returns its record: mqtt_msgs.extend([...])
GroupEmit ==
    /\ GroupQueried
    /\ Decode(GroupName, raws).exc = ""
    /\ mqtt_msgs' = mqtt_msgs \o <<Msg(GroupName, Record)>>
    /\ AfterGroup
    /\ UNCHANGED <<connection, executed, warnings, caught, handler, published, oc_vars, cr_vars, eg_vars>>

\* the query function raises an exception the group's except clause catches
GroupDecodeCaught ==
    /\ GroupQueried
    /\ Decode(GroupName, raws).exc # ""
    /\ GroupCatches(Decode(GroupName, raws).exc)
    /\ warnings' = Append(warnings, GroupName)
    /\ caught' = Append(caught,
           [exc |-> Decode(GroupName, raws).exc, line |-> Decode(GroupName, raws).line])
    /\ AfterGroup
    /\ UNCHANGED <<connection, mqtt_msgs, executed, handler, published, oc_vars, cr_vars, eg_vars>>

\* the query function raises an exception the group's except clause does not
\* catch: it reaches the outer try, whose except Exception clause logs it
GroupDecodeEscapes ==
    /\ GroupQueried
    /\ Decode(GroupName, raws).exc # ""
    /\ ~GroupCatches(Decode(GroupName, raws).exc)
    /\ handler' = "Exception"
    /\ pc' = "finally"
    /\ UNCHANGED <<connection, mqtt_msgs, group, gstep, raws, executed, warnings, caught,
                   timestamp, published, oc_vars, qc_vars, cr_vars, eg_vars>>

\* a variant in which a failed delivery ends the finally clause
AfterPublishFailureEnds(delivered) == IF delivered THEN "close" ELSE "done"

\* where the finally clause goes on after publish_data_mqtt: its except
\* Exception clause keeps a failed delivery inside, so the next statement runs
AfterPublish(delivered) == "close"

\* finally: publish_data_mqtt(mqtt_msgs); publish.multiple delivers or raises,
\* and publish_data_mqtt logs either
Publish(delivered) ==
    /\ pc = "finally"
    /\ published' = Append(published,
           [msgs |-> mqtt_msgs, delivered |-> delivered,
            log |-> IF delivered THEN "info" ELSE "error"])
    /\ pc' = AfterPublish(delivered)
    /\ UNCHANGED <<connection, mqtt_msgs, group, gstep, raws, executed, warnings, caught,
                   handler, timestamp, oc_vars, qc_vars, cr_vars, eg_vars>>

\* if 'connection' in locals() and connection is not None: connection.close()
Close ==
    /\ pc = "close"
    /\ conns' = IF connection # 0
                THEN [conns EXCEPT ![connection].closed = TRUE]
                ELSE conns
    /\ pc' = "done"
    /\ UNCHANGED <<connection, mqtt_msgs, group, gstep, raws, executed, warnings, caught,
                   handler, timestamp, published, connection_count, oc_sleeps, qc_vars,
                   cr_vars, eg_vars>>

-----------------------------------------------------------------------------
(* The messages can_response is run on *)

\* the identifier 7EC
Id7EC == <<7, 14, 12>>

\* n data digits that differ from line to line (seed) and from place to place
Fill(seed, n) == [i \in 1..n |-> (seed + 3 * i) % 16]

Hex3(n) == <<(n \div 256) % 16, (n \div 16) % 16, n % 16>>

\* a single frame declaring len data bytes
SFLine(len, seed) == Id7EC \o <<0, len>> \o Fill(seed, 14)

\* a first frame declaring dlen data bytes
FFLine(dlen, seed) == Id7EC \o <<1>> \o Hex3(dlen) \o Fill(seed, 12)

\* a consecutive frame of index idx
CFLine(idx, seed) == Id7EC \o <<2, idx>> \o Fill(seed, 14)

\* a frame of another type t (3 is flow control)
OtherLine(t, seed) == Id7EC \o <<t>> \o Fill(seed, 15)

\* a line one digit short
ShortLine == Id7EC \o <<2, 1>> \o Fill(5, 13)

\* a line one digit long
LongLine == Id7EC \o <<2, 1>> \o Fill(5, 15)

\* an empty line, as a newline at the end of the raw message leaves
EmptyLine == <<>>

\* the lines short messages are freely made of
Alphabet ==
    {SFLine(l, 1) : l \in {0, 3, 7}}
    \cup {FFLine(d, 2) : d \in {3, 6, 13, 20}}
    \cup {CFLine(i, 3 + i) : i \in {0, 1, 2}}
    \cup {OtherLine(3, 7), ShortLine}

\* every message of 1..MaxLines lines of the alphabet
FreeMessages == UNION {[1..n -> Alphabet] : n \in 1..MaxLines}

\* every single frame line: each declared length, each data pattern, alone or
\* followed by one more line
SingleMessages ==
    {<<SFLine(l, s)>> : l \in 0..15, s \in 0..15}
    \cup {<<SFLine(l, 4), t>> : l \in 0..15, t \in Alphabet}

\* the declared lengths of the generated multi-frame messages
LongLens == {6, 7, 13, 14, 61, 112, 125}

\* a first frame declaring dlen and n consecutive frames indexed 1, 2, ...
\* (mod 16); the frame at position bad (0: none) has its index shifted by shift
LongMessage(dlen, n, bad, shift) ==
    [k \in 1..(n + 1) |->
        IF k = 1 THEN FFLine(dlen, 0)
        ELSE CFLine(((k - 1) + (IF k - 1 = bad THEN shift ELSE 0)) % IdxMod, k - 1)]

LongMessages ==
    {LongMessage(d, n, 0, 0) \o tail :
        d \in LongLens, n \in 0..MaxFrames, tail \in {<<>>, <<ShortLine>>, <<OtherLine(3, 7)>>}}
    \cup {LongMessage(d, n, bad, shift) :
        d \in LongLens, n \in 1..MaxFrames, bad \in 1..MaxFrames, shift \in {1, 15}}

\* the example of the documentation comment: 7EC103D6101FFFFFFFF and the
\* consecutive frames 1..8
DocExample ==
    << <<7,14,12,1,0,3,13,6,1,0,1,15,15,15,15,15,15,15,15>>,
       <<7,14,12,2,1,10,9,2,6,4,8,2,6,4,8,0,3,0,0>>,
       <<7,14,12,2,2,0,5,0,14,15,10,1,15,1,15,1,15,1,15>>,
       <<7,14,12,2,3,1,15,1,15,1,15,0,0,1,13,12,7,1,4>>,
       <<7,14,12,2,4,12,7,0,10,0,1,2,10,9,1,0,0,0,1>>,
       <<7,14,12,2,5,5,4,7,10,0,0,0,1,5,1,11,3,0,0>>,
       <<7,14,12,2,6,0,0,7,10,13,1,0,0,0,0,7,7,1,8>>,
       <<7,14,12,2,7,0,0,5,9,2,8,11,4,0,13,0,1,7,15>>,
       <<7,14,12,2,8,0,0,0,0,0,0,0,0,0,3,14,8,0,0>> >>

\* a line of a wrong length: alone, after a first frame, after a first frame
\* and a consecutive frame, and after the frames of a message left incomplete
BadLengthMessages ==
    {pre \o <<l>> :
        pre \in {<<>>, <<FFLine(20, 2)>>, <<FFLine(20, 2), CFLine(1, 4)>>,
                 LongMessage(61, 5, 0, 0)},
        l \in {ShortLine, LongLine, EmptyLine}}

\* a frame of each type 3..F: alone, and after a first and a consecutive frame
OtherMessages ==
    {pre \o <<OtherLine(t, s)>> :
        pre \in {<<>>, <<FFLine(20, 2), CFLine(1, 4)>>}, t \in 3..15, s \in {0, 9}}

\* a first frame after a first frame and its consecutive frames: followed by
\* consecutive frames indexed from 1 again, or by one that goes on with the
\* index of the frames before
ResetMessages ==
    {<<FFLine(20, 2), CFLine(1, 4)>> \o tail :
        tail \in {<<FFLine(13, 9), CFLine(1, 6)>>,
                  <<FFLine(13, 9), CFLine(2, 6)>>,
                  <<FFLine(20, 9), CFLine(1, 6), CFLine(2, 8)>>,
                  <<FFLine(20, 9), CFLine(1, 6), FFLine(13, 5), CFLine(1, 10)>>}}

CanMessages ==
    FreeMessages \cup SingleMessages \cup LongMessages \cup {DocExample}
    \cup BadLengthMessages \cup OtherMessages \cup ResetMessages

\* the lines of msg, the k-th with the identifier ids[k] in place of its own
WithIdentifiers(msg, ids) ==
    [k \in 1..Len(msg) |-> ids[k] \o PySlice(msg[k], offset, Len(msg[k]))]

\* messages of TwiceMessages under other identifiers: another one for the
\* whole message, and consecutive frames that carry another identifier than
\* their first frame
IdentifierMessages ==
    {WithIdentifiers(<<SFLine(3, 1)>>, <<Hex3(2016)>>),
     WithIdentifiers(<<FFLine(20, 2), CFLine(1, 4), CFLine(2, 5)>>,
                     <<Hex3(2017), Hex3(2018), Hex3(1970)>>),
     WithIdentifiers(<<CFLine(1, 4)>>, <<Hex3(2018)>>),
     WithIdentifiers(<<FFLine(20, 2), CFLine(2, 5)>>, <<Id7EC, Hex3(2026)>>)}

\* the messages of the calls made in a row: one of each outcome, and some of
\* them under other identifiers
TwiceMessages ==
    IdentifierMessages \cup
    {DocExample,
     <<SFLine(3, 1)>>,
     <<FFLine(20, 2), CFLine(1, 4), CFLine(2, 5)>>,
     <<FFLine(61, 2), CFLine(1, 4), CFLine(2, 5)>>,
     <<CFLine(3, 6)>>,
     <<CFLine(1, 4)>>,
     <<FFLine(20, 2), CFLine(2, 5)>>,
     <<FFLine(3, 2), CFLine(1, 4)>>,
     <<FFLine(20, 2), ShortLine>>,
     <<OtherLine(3, 7)>>}

-----------------------------------------------------------------------------
(* The values of the variables of a part that is not running *)

CanIdle ==
    /\ raw = <<>>
    /\ line_no = 1
    /\ data = None
    /\ data_len = 0
    /\ last_idx = 0
    /\ cr_pc = "idle"
    /\ cr_err = NoErr
    /\ cr_trace = <<>>
    /\ cr_calls = <<>>

QueryIdle ==
    /\ command = ""
    /\ command_count = 0
    /\ cmd_response = NoneResponse
    /\ exception = FALSE
    /\ valid_response = FALSE
    /\ qc_pc = "idle"
    /\ qc_calls = <<>>
    /\ qc_sleeps = <<>>
    /\ qc_log = <<>>

ConnectIdle ==
    /\ connection_count = 0
    /\ conns = <<>>
    /\ oc_sleeps = <<>>

GearIdle ==
    /\ gear_bits = 0
    /\ gear_str = <<>>
    /\ eg_pc = "idle"

MainIdle ==
    /\ pc = "idle"
    /\ connection = 0
    /\ mqtt_msgs = <<>>
    /\ group = 0
    /\ gstep = 0
    /\ raws = <<>>
    /\ executed = <<>>
    /\ warnings = <<>>
    /\ caught = <<>>
    /\ handler = ""
    /\ timestamp = NoTime
    /\ published = <<>>

-----------------------------------------------------------------------------
(* The specification of one call of can_response *)

InitCan ==
    /\ \E msg \in CanMessages :
        /\ raw = msg
        /\ line_no = 1
        /\ data = None
        /\ data_len = 0
        /\ last_idx = 0
        /\ cr_pc = "loop"
        /\ cr_err = NoErr
        /\ cr_trace = <<>>
    /\ cr_calls = <<>>
    /\ QueryIdle
    /\ ConnectIdle
    /\ MainIdle
    /\ GearIdle

NextCan ==
    \/ CanBadLength /\ UNCHANGED <<qc_vars, oc_vars, main_vars, eg_vars>>
    \/ CanSingleFrame /\ UNCHANGED <<qc_vars, oc_vars, main_vars, eg_vars>>
    \/ CanFirstFrame /\ UNCHANGED <<qc_vars, oc_vars, main_vars, eg_vars>>
    \/ CanConsecutiveFrame /\ UNCHANGED <<qc_vars, oc_vars, main_vars, eg_vars>>
    \/ CanUnexpectedFrame /\ UNCHANGED <<qc_vars, oc_vars, main_vars, eg_vars>>
    \/ CanLoopEnd /\ UNCHANGED <<qc_vars, oc_vars, main_vars, eg_vars>>

SpecCan == InitCan /\ [][NextCan]_vars

-----------------------------------------------------------------------------
(* The specification of calls of can_response made one after the other *)

InitCanTwice ==
    /\ \E msg \in TwiceMessages :
        /\ raw = msg
        /\ line_no = 1
        /\ data = None
        /\ data_len = 0
        /\ last_idx = 0
        /\ cr_pc = "loop"
        /\ cr_err = NoErr
        /\ cr_trace = <<>>
    /\ cr_calls = <<>>
    /\ QueryIdle
    /\ ConnectIdle
    /\ MainIdle
    /\ GearIdle

CanCallAny == \E msg \in TwiceMessages : CanCall(msg) /\ UNCHANGED <<qc_vars, oc_vars, main_vars, eg_vars>>

NextCanTwice ==
    \/ NextCan
    \/ CanCallAny

SpecCanTwice == InitCanTwice /\ [][NextCanTwice]_vars

-----------------------------------------------------------------------------
(* The specification of one call of extract_gear *)

InitGear ==
    /\ CanIdle
    /\ QueryIdle
    /\ ConnectIdle
    /\ MainIdle
    /\ gear_bits \in 0..255
    /\ gear_str = <<>>
    /\ eg_pc = "call"

NextGear == ExtractGear

SpecGear == InitGear /\ [][NextGear]_vars

-----------------------------------------------------------------------------
(* The specification of one call of query_command *)

\* the values connection.query may return for a command
Values ==
    {NoneValue, Str(""), Str("?"), Str("NO DATA"), Str("OK"),
     Bytes(<<>>), Bytes(<<98, 1, 255>>)}

\* the outcomes of one connection.query
Outcomes == {Raises, Returns(NoneResponse)} \cup {Returns(Response(v)) : v \in Values}

InitQuery ==
    /\ CanIdle
    /\ ConnectIdle
    /\ MainIdle
    /\ GearIdle
    /\ command = "cmd_bms_2101"
    /\ command_count = 0
    /\ cmd_response = NoneResponse
    /\ exception = FALSE
    /\ valid_response = FALSE
    /\ qc_pc = "loop"
    /\ qc_calls = <<>>
    /\ qc_sleeps = <<>>
    /\ qc_log = <<>>

QueryAttemptAny == \E o \in Outcomes : QueryAttempt(o) /\ UNCHANGED <<cr_vars, oc_vars, main_vars, eg_vars>>

NextQuery ==
    \/ QueryAttemptAny
    \/ QueryRaise /\ UNCHANGED <<cr_vars, oc_vars, main_vars, eg_vars>>
    \/ QueryReturn /\ UNCHANGED <<cr_vars, oc_vars, main_vars, eg_vars>>

SpecQuery == InitQuery /\ [][NextQuery]_vars

-----------------------------------------------------------------------------
(* The specification of one run of the main script *)

\* the status a connection attempt may end in
Statuses == {CAR_CONNECTED, "OBD Connected", "Not Connected"}

\* whether obd.OBD(...) hands over a connection object it has closed itself:
\* it may for one that reached no adapter, it keeps the port open otherwise
LibraryCloses(st) == IF st = "Not Connected" THEN BOOLEAN ELSE {FALSE}

\* a payload too short for the positions the decoders read
ShortPayload == [i \in 1..8 |-> i]

\* a payload of the length of the documented 2101 response, with the raw State
\* Of Health soh at positions 27 and 28; the other bytes differ from their
\* neighbours and stay below 128, so that a 4-byte field is below 2^31
FullPayload(soh) ==
    [i \in 1..61 |->
        IF i = 28 THEN soh \div 256 ELSE IF i = 29 THEN soh % 256 ELSE (3 * i) % 128]

\* the payloads a command's response may carry
Payloads(cmd) ==
    {ShortPayload, FullPayload(950)}
    \cup (IF cmd = "cmd_bms_2105"
          THEN {FullPayload(1000), FullPayload(1001), FullPayload(1010)}
          ELSE {})

\* the outcomes of connection.query for a command of the main script
MainOutcomes(cmd) ==
    IF cmd \in CanCommands
    THEN {Raises, Returns(Response(NoneValue))}
         \cup {Returns(Response(Bytes(p))) : p \in Payloads(cmd)}
    ELSE {Raises, Returns(Response(Str("NO DATA"))), Returns(Response(Str("OK")))}

Init ==
    /\ CanIdle
    /\ QueryIdle
    /\ ConnectIdle
    /\ GearIdle
    /\ pc = "start"
    /\ connection = 0
    /\ mqtt_msgs = <<>>
    /\ group = 0
    /\ gstep = 0
    /\ raws = <<>>
    /\ executed = <<>>
    /\ warnings = <<>>
    /\ caught = <<>>
    /\ handler = ""
    /\ timestamp = NoTime
    /\ published = <<>>

Connecting == \E st \in Statuses : \E closed \in LibraryCloses(st) : ConnectAttempt(st, closed)

Querying == \E o \in MainOutcomes(command) : GroupQueryAttempt(o)

Publishing == \E delivered \in BOOLEAN : Publish(delivered)

Next ==
    \/ MainStart
    \/ Connecting
    \/ ConnectReturn
    \/ ConnectRaise
    \/ SetupCommands
    \/ SetupRaises
    \/ GroupStart
    \/ Querying
    \/ GroupQueryReturn
    \/ GroupNextQuery
    \/ GroupQueryRaise
    \/ GroupEmit
    \/ GroupDecodeCaught
    \/ GroupDecodeEscapes
    \/ Publishing
    \/ Close

Spec == Init /\ [][Next]_vars

\* the script is one thread that runs on whenever it has a next statement
SpecLive == Init /\ [][Next]_vars /\ WF_vars(Next)

-----------------------------------------------------------------------------
(* Claims about can_response, checked under SpecCan *)

\* the number of lines the loop has processed (the last may have raised)
Processed == Len(cr_trace)

IsFrame(l, t) == Len(l) = LineLen /\ l[offset + 1] = t

\* the index digit of a consecutive frame
IdxOf(l) == l[offset + 2]

\* the index the frame before line k leaves behind: 0 at the start and after a
\* first frame, and its own index after a consecutive frame
PrevIdx(k) ==
    IF k = 1 THEN 0
    ELSE IF IsFrame(raw[k - 1], 2) THEN IdxOf(raw[k - 1]) ELSE 0

\* line k is a consecutive frame whose index is not (previous index + 1) mod 16
OutOfOrder(k) == IsFrame(raw[k], 2) /\ IdxOf(raw[k]) # (PrevIdx(k) + 1) % 16

\* the hexadecimal decoding of the 2*n digits of l that follow position from
HexBytes(l, from, n) == [i \in 1..n |-> 16 * l[from + 2 * i - 1] + l[from + 2 * i]]

\* C6 (as claimed): when the loop has consumed every line and the payload has
\* not reached the declared data_len, can_response does not return: no partial
\* payload reaches the caller.
C6_NoPartialPayload ==
    ~(cr_pc = "returned" /\ line_no > Len(raw) /\ Len(data) < data_len)

\* C7 (as claimed): whenever a payload has been started, and in any returned
\* payload, the number of accumulated bytes is at most the declared data_len.
C7_PayloadWithinDeclared ==
    data # None => Len(data) <= data_len

\* C8: every processed consecutive frame carries (previous index + 1) mod 16,
\* the previous index being 0 after a first frame; a frame with any other
\* index is the last line processed and makes can_response raise the
\* CanError of the order check, returning nothing; and that CanError is
\* raised for no other reason.
C8_SequenceChecked ==
    /\ \A k \in 1..Processed :
          OutOfOrder(k) => k = Processed /\ cr_pc = "raised" /\ cr_err = ErrFrameOrder
    /\ cr_err = ErrFrameOrder => cr_pc = "raised" /\ OutOfOrder(Processed)

\* C8 witness: a frame out of order after the index has wrapped from 15 to 0
C8_Witness ==
    /\ cr_pc = "raised"
    /\ cr_err = ErrFrameOrder
    /\ Processed = 18
    /\ IdxOf(raw[17]) = 0

\* the number of consecutive frames needed to carry dl - 6 bytes
FramesNeeded(dl) == ((dl - 6) + 6) \div 7

\* lines 2..(1 + n) of the message are consecutive frames indexed 1, 2, ... (mod 16)
FramesInOrder(n) ==
    /\ Len(raw) >= 1 + n
    /\ \A k \in 2..(1 + n) : IsFrame(raw[k], 2) /\ IdxOf(raw[k]) = (k - 1) % 16

\* the first dl bytes of: the 6 bytes of the first frame, then the 7 bytes of
\* each of the n consecutive frames that follow, in order
RECURSIVE Carried(_)
Carried(n) ==
    IF n = 0 THEN HexBytes(raw[1], offset + 4, 6)
    ELSE Carried(n - 1) \o HexBytes(raw[n + 1], offset + 2, 7)

Expected(dl, n) == SubSeq(Carried(n), 1, dl)

\* the declared length of a message that starts with a first frame
Declared == 256 * raw[1][offset + 2] + 16 * raw[1][offset + 3] + raw[1][offset + 4]

\* the bytes of the documented example, 61 of them
DocExampleBytes ==
    <<97, 1, 255, 255, 255, 255, 169, 38, 72, 38, 72, 3, 0, 5, 14, 250, 31, 31,
      31, 31, 31, 31, 31, 0, 29, 199, 20, 199, 10, 1, 42, 145, 0, 1, 84, 122, 0,
      1, 81, 179, 0, 0, 122, 209, 0, 0, 119, 24, 0, 89, 40, 180, 13, 1, 127, 0,
      0, 0, 0, 3, 232>>

\* C9 (as claimed): a first frame declaring dl >= 6 followed by the
\* consecutive frames, in order, that carry the remaining dl - 6 bytes, and
\* by any other lines after them: can_response returns exactly the dl bytes.
C9_Original ==
    (/\ IsFrame(raw[1], 1)
     /\ Declared >= 6
     /\ FramesInOrder(FramesNeeded(Declared))
     /\ cr_pc # "loop")
    => (/\ cr_pc = "returned"
        /\ data = Expected(Declared, FramesNeeded(Declared)))

\* the frame that completes the payload in the code: the consecutive frame at
\* which the length reaches data_len, which for data_len = 6 is the first
\* consecutive frame (it adds no byte), unless the first frame is the last line
CompletingFrames(dl) ==
    IF dl = 6 THEN (IF Len(raw) = 1 THEN 0 ELSE 1) ELSE FramesNeeded(dl)

\* C9 (amended): as claimed, the completing frame being the consecutive frame
\* at which the payload reaches data_len; the result is the first data_len
\* bytes of the first frame's 6 bytes followed by each consecutive frame's 7,
\* lines after the completing frame are not read, and the documented example
\* yields its 61 bytes.
C9_Reassembled ==
    /\ (/\ IsFrame(raw[1], 1)
        /\ Declared >= 6
        /\ FramesInOrder(CompletingFrames(Declared))
        /\ cr_pc # "loop")
       => (/\ cr_pc = "returned"
           /\ Len(data) = Declared
           /\ data = Expected(Declared, FramesNeeded(Declared))
           /\ Processed = 1 + CompletingFrames(Declared))
    /\ (raw = DocExample /\ cr_pc # "loop")
       => (cr_pc = "returned" /\ Len(data) = 61 /\ data = DocExampleBytes)

\* C9 witness: 61 bytes returned, the last frame truncated, with lines after
\* the completing frame left unread
C9_Witness ==
    /\ cr_pc = "returned"
    /\ IsFrame(raw[1], 1)
    /\ Declared = 61
    /\ Len(data) = 61
    /\ Len(raw) > Processed
    /\ Len(raw[Len(raw)]) # LineLen

\* C10: a processed single frame line declaring 0..7 bytes ends the loop on
\* that line, and the payload returned is exactly the declared number of
\* bytes, the decoding of the digits that follow the length digit.
C10_SingleFrame ==
    \A k \in 1..Processed :
        (IsFrame(raw[k], 0) /\ raw[k][offset + 2] <= 7)
        => (/\ k = Processed
            /\ cr_pc = "returned"
            /\ line_no = k
            /\ Len(data) = raw[k][offset + 2]
            /\ data = HexBytes(raw[k], offset + 2, raw[k][offset + 2]))

\* C10 witness: a single frame of 7 bytes returned from a message that has a
\* second line
C10_Witness ==
    /\ cr_pc = "returned"
    /\ cr_trace = <<"single">>
    /\ Len(raw) = 2
    /\ Len(data) = 7

\* C11: every processed line whose length is not 19 is the last line
\* processed: can_response raises the ValueError of the length check on it
\* and returns nothing, whatever it had accumulated from the lines before;
\* and that ValueError is raised for no other reason.
C11_LineLengthChecked ==
    /\ \A k \in 1..Processed :
          Len(raw[k]) # 19 => k = Processed /\ cr_pc = "raised" /\ cr_err = ErrLineLength
    /\ cr_err = ErrLineLength => cr_pc = "raised" /\ Len(raw[Processed]) # 19

\* C11 witness: a line one digit short met after 13 bytes were accumulated
C11_Witness ==
    /\ cr_pc = "raised"
    /\ cr_err = ErrLineLength
    /\ Processed = 3
    /\ Len(raw[3]) = 18
    /\ data # None
    /\ Len(data) = 13

\* C12: every processed line of 19 characters whose frame type digit is one
\* of 3..F is the last line processed: can_response raises the ValueError
\* 'Unexpected frame' on it and returns nothing; and that ValueError is
\* raised for no other reason.
C12_UnexpectedFrameType ==
    /\ \A k \in 1..Processed :
          (Len(raw[k]) = 19 /\ raw[k][offset + 1] \in 3..15)
          => (k = Processed /\ cr_pc = "raised" /\ cr_err = ErrUnexpectedFrame)
    /\ cr_err = ErrUnexpectedFrame
       => (/\ cr_pc = "raised"
           /\ Len(raw[Processed]) = 19
           /\ raw[Processed][offset + 1] \in 3..15)

\* C12 witness: a flow control frame (type 3) met after a first frame and a
\* consecutive frame
C12_Witness ==
    /\ cr_pc = "raised"
    /\ cr_err = ErrUnexpectedFrame
    /\ Processed = 3
    /\ raw[3][offset + 1] = 3
    /\ Len(data) = 13

\* the last of the processed lines that is a first frame
LastFirst ==
    CHOOSE f \in 1..Processed :
        cr_trace[f] = "first" /\ \A k \in (f + 1)..Processed : cr_trace[k] # "first"

\* the bytes of the processed lines f..k: the 6 of the first frame f and the 7
\* of each consecutive frame after it
RECURSIVE BytesFrom(_, _)
BytesFrom(f, k) ==
    IF k = f THEN FromHex(PySlice(raw[f], offset + 4, LineLen))
    ELSE BytesFrom(f, k - 1) \o FromHex(PySlice(raw[k], offset + 2, LineLen))

\* C29: a first frame that is read sets the payload to its own 6 bytes,
\* data_len to the length it declares and the sequence counter to 0, whatever
\* was accumulated before; a payload returned after a first frame was read is
\* made of the bytes of the last first frame read and of the consecutive frames
\* after it, and those frames are indexed 1, 2, ...
C29_FirstFrameResets ==
    /\ [][(CanAtLine /\ ~BadLineLength(line) /\ frame_type = 1)
           => /\ data' = FromHex(PySlice(line, offset + 4, LineLen))
              /\ data_len' = IntHex(PySlice(line, offset + 1, offset + 4))
              /\ last_idx' = 0]_vars
    /\ []((/\ cr_pc = "returned"
           /\ \E f \in 1..Processed : cr_trace[f] = "first"
           /\ cr_trace[Processed] # "single")
          => /\ Len(data) <= Len(BytesFrom(LastFirst, Processed))
             /\ data = SubSeq(BytesFrom(LastFirst, Processed), 1, Len(data))
             /\ Len(data) >= 6
             /\ data_len = IntHex(PySlice(raw[LastFirst], offset + 1, offset + 4))
             /\ \A k \in (LastFirst + 1)..Processed :
                   raw[k][offset + 2] = (k - LastFirst) % IdxMod)

\* C29 witness: the 13 bytes of the second first frame and of the consecutive
\* frame 1 after it are returned, the 13 bytes read before them are gone
C29_Witness ==
    /\ cr_pc = "returned"
    /\ raw = <<FFLine(20, 2), CFLine(1, 4), FFLine(13, 9), CFLine(1, 6)>>
    /\ Processed = 4
    /\ data_len = 13
    /\ data = FromHex(Fill(9, 12)) \o FromHex(Fill(6, 14))

\* the errors of the frame level that can_response raises itself: the line
\* length (FormatError), the frame order (SequenceError) and the frame type
\* (UnexpectedFrameType); no statement raises for an incomplete message
FrameLevelErrors == {ErrLineLength, ErrFrameOrder, ErrUnexpectedFrame}

\* C25 (as claimed): every failure of can_response is one of the frame-level
\* errors, also for a message that begins with a consecutive frame and for a
\* first frame declaring fewer than 6 bytes followed by a consecutive frame.
C25_FrameLevelErrorsOnly == cr_pc = "raised" => cr_err \in FrameLevelErrors

-----------------------------------------------------------------------------
(* Claims about calls of can_response in a row, checked under SpecCanTwice *)

\* the calls that have finished: the earlier ones and, once it has returned
\* or raised, the current one
CanFinished ==
    cr_calls \o (IF cr_pc \in {"returned", "raised"} THEN <<CanOutcome>> ELSE <<>>)

\* C13: any two finished calls of can_response on the same lines have the
\* same outcome, the same bytes returned or the same exception raised,
\* whatever calls were made before or between them.
C13_Deterministic ==
    \A i, j \in 1..Len(CanFinished) :
        CanFinished[i].raw = CanFinished[j].raw => CanFinished[i] = CanFinished[j]

\* C13 witness: the documented example reassembled twice to its 61 bytes,
\* with a call that raised on other lines between the two
C13_Witness ==
    /\ Len(CanFinished) = 3
    /\ CanFinished[1].raw = DocExample
    /\ CanFinished[3].raw = DocExample
    /\ CanFinished[2].pc = "raised"
    /\ CanFinished[3].pc = "returned"
    /\ CanFinished[3].data = DocExampleBytes
    /\ CanFinished[1].data = DocExampleBytes

\* two messages that differ at most in the identifiers of their lines
SameButIdentifiers(m1, m2) ==
    /\ Len(m1) = Len(m2)
    /\ \A k \in 1..Len(m1) :
          /\ Len(m1[k]) = Len(m2[k])
          /\ PySlice(m1[k], offset, Len(m1[k])) = PySlice(m2[k], offset, Len(m2[k]))

\* C26: any two finished calls of can_response on messages that differ only in
\* the identifiers (the first 3 digits) of some lines have the same outcome:
\* the same bytes returned or the same exception raised.
C26_IdentifierIgnored ==
    \A i, j \in 1..Len(CanFinished) :
        SameButIdentifiers(CanFinished[i].raw, CanFinished[j].raw)
        => /\ CanFinished[i].pc = CanFinished[j].pc
           /\ CanFinished[i].err = CanFinished[j].err
           /\ CanFinished[i].data = CanFinished[j].data

\* C26 witness: a first frame and two consecutive frames reassembled to the
\* same 20 bytes twice, once with the identifier 7EC on every line and once
\* with three different identifiers
C26_Witness ==
    /\ Len(CanFinished) = 2
    /\ CanFinished[1].raw = <<FFLine(20, 2), CFLine(1, 4), CFLine(2, 5)>>
    /\ CanFinished[2].raw # CanFinished[1].raw
    /\ SameButIdentifiers(CanFinished[1].raw, CanFinished[2].raw)
    /\ CanFinished[2].raw[2][3] # CanFinished[2].raw[1][3]
    /\ CanFinished[2].pc = "returned"
    /\ Len(CanFinished[2].data) = 20
    /\ CanFinished[2].data = CanFinished[1].data

-----------------------------------------------------------------------------
(* Claims about extract_gear, checked under SpecGear *)

\* the letters of the gear stick and their masks 0x1, 0x2, 0x4, 0x8, 0x10
Gears == <<"P", "R", "N", "D", "B">>

\* the bit of the k-th mask is set in the gear byte
GearBit(k) == (gear_bits \div (2 ^ (k - 1))) % 2 = 1

\* C22: for every gear byte 0..255, extract_gear returns the letters of the
\* masks 0x1, 0x2, 0x4, 0x8, 0x10 that are set and no other, in the order
\* P, R, N, D, B, each at most once, whatever the bits 0x20, 0x40, 0x80 are;
\* 0b00001001 gives "PD" and 0 gives the empty string.
C22_GearLetters ==
    eg_pc = "returned"
    => (/\ \A k \in 1..5 :
              GearBit(k) <=> (\E i \in 1..Len(gear_str) : gear_str[i] = Gears[k])
        /\ \A i \in 1..Len(gear_str) : \E k \in 1..5 : gear_str[i] = Gears[k]
        /\ \A i, j \in 1..Len(gear_str) :
              i < j => \E k, l \in 1..5 :
                          k < l /\ gear_str[i] = Gears[k] /\ gear_str[j] = Gears[l]
        /\ gear_bits % 32 = 9 => gear_str = <<"P", "D">>
        /\ gear_bits % 32 = 0 => gear_str = <<>>)

\* C22 witness: the byte 0b11101001, with the three high bits set, gives "PD"
C22_Witness ==
    /\ eg_pc = "returned"
    /\ gear_bits = 233
    /\ gear_str = <<"P", "D">>

-----------------------------------------------------------------------------
(* Claims about the main script, checked under Spec *)

\* C1 (as claimed): in a run that has entered its first group, a failure at
\* any stage of a group stays in that group: the run ends with every group of
\* battery, vmcu, odometer, tpms, ext_temp executed, and no failure of a group
\* reaches an except clause of the outer try.
C1_GroupFailureIsolated ==
    (pc = "done" /\ executed # <<>>) => (executed = GroupOrder /\ handler = "")

\* the except clause of group g logged its warning
Warned(g) == \E i \in 1..Len(warnings) : warnings[i] = g

\* the query function of group g was entered
Executed(g) == \E i \in 1..Len(executed) : executed[i] = g

\* the topics of a list of messages, in order
Topics(msgs) == [i \in 1..Len(msgs) |-> msgs[i].topic]

\* the last message of a list
Last(msgs) == msgs[Len(msgs)]

\* query_battery_information has got its seven responses, and raw_2101 ..
\* raw_2105 have every position the function reads (0..52, 0..37, 0..33)
BatteryDecoding ==
    /\ pc = "group" /\ group = 1 /\ gstep = 7 /\ qc_pc = "returned" /\ Len(raws) = 7
    /\ Len(raws[3].b) >= 53
    /\ \A k \in 4..6 : Len(raws[k].b) >= 38
    /\ Len(raws[7].b) >= 34

\* the 2-byte big-endian value at bytes 27..28 of the 2105 payload
RawSoh == 256 * raws[7].b[28] + raws[7].b[29]

\* C14: with the responses of the battery group in hand, the next step adds
\* a battery record exactly when the raw State Of Health is <= 1000, and the
\* record reports soh = raw / 10 (kept in tenths: 950 for 95.0); when it is
\* > 1000 the step adds no entry, the ValueError is caught by the battery
\* group (a warning), and the run goes on with the vmcu group.  A run in which
\* the battery group was skipped and no exception reached the outer try has
\* executed vmcu, odometer, tpms and ext_temp, and publishes an entry for
\* each of them that succeeded and none for battery.
C14_SohGuard ==
    /\ [][BatteryDecoding =>
            IF RawSoh <= 1000
            THEN /\ mqtt_msgs' = Append(mqtt_msgs, Last(mqtt_msgs'))
                 /\ Last(mqtt_msgs').topic = "battery"
                 /\ Last(mqtt_msgs').payload.soh = RawSoh
                 /\ warnings' = warnings
                 /\ handler' = ""
            ELSE /\ mqtt_msgs' = mqtt_msgs
                 /\ warnings' = Append(warnings, "battery")
                 /\ handler' = ""
                 /\ pc' = "group" /\ group' = 2 /\ gstep' = 0]_vars
    /\ []((pc = "done" /\ Warned("battery") /\ handler = "")
           => (/\ executed = GroupOrder
               /\ Len(published) = 1
               /\ \A i \in 1..Len(published[1].msgs) :
                     published[1].msgs[i].topic # "battery"
               /\ \A g \in {"vmcu", "odometer", "tpms", "ext_temp"} :
                     ~Warned(g) => \E i \in 1..Len(published[1].msgs) :
                                      published[1].msgs[i].topic = g))

\* C14 witness: a run ended in which the battery group was the only one
\* skipped and the four other groups were published
C14_Witness ==
    /\ pc = "done"
    /\ warnings = <<"battery">>
    /\ Len(published) = 1
    /\ Topics(published[1].msgs) = <<"state", "vmcu", "odometer", "tpms", "ext_temp">>

\* group g has succeeded: it was executed, it logged no warning and it did
\* not end the run with an exception
Succeeded(g) ==
    /\ Executed(g)
    /\ ~Warned(g)
    /\ ~(handler = "Exception" /\ Last(executed) = g)

\* the groups that have succeeded, in order
SucceededGroups == SelectSeq(GroupOrder, Succeeded)

\* C15 (as claimed): the list given to the publish call has exactly one entry
\* for each group that succeeded and no other entry, each with qos 0 and
\* retain true.
C15_Original ==
    \A k \in 1..Len(published) :
        /\ Topics(published[k].msgs) = SucceededGroups
        /\ \A i \in 1..Len(published[k].msgs) :
              published[k].msgs[i].qos = 0 /\ published[k].msgs[i].retain = TRUE

\* C15 (amended): the list given to the publish call is the state message
\* ("state", "ON") followed by exactly one entry for each group that
\* succeeded, in the order of the groups, and no other entry: its length is
\* the number of groups that succeeded plus one; each entry has qos 0 and
\* retain true.
C15_PublishedEntries ==
    \A k \in 1..Len(published) :
        /\ Topics(published[k].msgs) = <<"state">> \o SucceededGroups
        /\ Len(published[k].msgs) = 1 + Len(SucceededGroups)
        /\ published[k].msgs[1].payload = [state |-> "ON"]
        /\ \A i \in 1..Len(published[k].msgs) :
              published[k].msgs[i].qos = 0 /\ published[k].msgs[i].retain = TRUE

\* C15 witness: a list published with the state message and the entries of
\* three groups, two groups having failed
C15_Witness ==
    /\ Len(published) = 1
    /\ Len(executed) = 5
    /\ Len(warnings) = 2
    /\ Len(published[1].msgs) = 4

\* C17 (as claimed): when the run has ended, every connection object that
\* obd_connect created is closed.
C17_NoConnectionLeak ==
    pc = "done" => \A i \in 1..Len(conns) : conns[i].closed

\* connection establishment has ended without a connected car
EstablishmentFailed == pc \notin {"start", "connect"} /\ LastStatus # "Car Connected"

\* C18: when connection establishment has failed, the failure is the
\* ConnectionError handled by the outer try: no connection is bound, no
\* group is executed and no command is queried; the run still ends, having
\* made one publish call with the entries that exist then, the state
\* message alone.
C18_ConnectionErrorFatal ==
    EstablishmentFailed
    => (/\ handler = "ConnectionError"
        /\ connection = 0
        /\ connection_count = 3
        /\ executed = <<>>
        /\ qc_pc = "idle" /\ qc_calls = <<>> /\ command = ""
        /\ pc \in {"finally", "close", "done"}
        /\ pc = "finally" => published = <<>>
        /\ pc \in {"close", "done"}
           => (Len(published) = 1 /\ Topics(published[1].msgs) = <<"state">>))

\* C18 witness: a run ended after three failed connection attempts, its one
\* publish call delivered
C18_Witness ==
    /\ pc = "done"
    /\ handler = "ConnectionError"
    /\ Len(conns) = 3
    /\ Len(published) = 1
    /\ published[1].delivered

\* C19 (as claimed): the timestamp of every group's record was read after
\* all the responses of the group had arrived.
C19_TimestampAtDecode ==
    \A i \in 1..Len(mqtt_msgs) :
        mqtt_msgs[i].topic # "state"
        => mqtt_msgs[i].payload.timestamp.responses = Len(GroupCommands(mqtt_msgs[i].topic))

\* a call of query_command begins
QueryStarts == qc_pc # "loop" /\ qc_pc' = "loop"

\* in a sequence of commands, no setup command follows a data command
SetupFirst(cmds) ==
    \A i, j \in 1..Len(cmds) : (i < j /\ cmds[i] \in CanCommands) => cmds[j] \in CanCommands

\* C20: a query_command call that begins is for the next command of the
\* running group's fixed list: the first one when the group starts, and
\* command k + 1 only when the call for command k has returned a response
\* that query_command judged valid; in each list the setup commands come
\* before the data commands; a call that fails ends the group with no further
\* command and no record; a record is added only when every command of the
\* group has returned; and the groups run one after the other, in order.
C20_CommandOrder ==
    /\ [][QueryStarts =>
            /\ pc' = "group" /\ group' = group /\ group \in 1..5
            /\ command' = GroupCommands(GroupOrder[group])[gstep']
            /\ \/ gstep = 0 /\ gstep' = 1 /\ qc_pc = "idle"
               \/ /\ gstep' = gstep + 1
                  /\ qc_pc = "returned" /\ valid_response
                  /\ Len(raws) = gstep]_vars
    /\ [](\A g \in {"battery", "vmcu", "odometer", "tpms", "ext_temp"} :
             SetupFirst(GroupCommands(g)))
    /\ [][(pc = "group" /\ qc_pc = "loop" /\ ~valid_response /\ command_count = 3)
           => (gstep' = 0 /\ qc_pc' = "idle" /\ mqtt_msgs' = mqtt_msgs)]_vars
    /\ [][(pc = "group" /\ mqtt_msgs' # mqtt_msgs)
           => (/\ qc_pc = "returned"
               /\ gstep = Len(GroupCommands(GroupOrder[group]))
               /\ Len(raws) = gstep)]_vars
    /\ [][group' # group
           => (/\ group' = group + 1
               /\ gstep' = 0
               /\ qc_pc' = "idle")]_vars

\* C20 witness: the last data command of the battery group is being queried
\* after the six commands before it have returned
C20_Witness ==
    /\ pc = "group"
    /\ group = 1
    /\ gstep = 7
    /\ command = "cmd_bms_2105"
    /\ qc_pc = "loop"
    /\ Len(raws) = 6

\* the third attempt of a data command of the running group has just yielded
\* a response whose value is null
NullDataQuery ==
    /\ pc = "group"
    /\ command \in CanCommands
    /\ qc_pc = "loop"
    /\ command_count = 3
    /\ Len(qc_calls) = 3
    /\ ~qc_calls[3].raises
    /\ ~qc_calls[3].response.null
    /\ qc_calls[3].response.value.t = "none"

\* the ValueError "Could not get ..." of the odometer, tpms and ext_temp
\* functions, the only errors of the code that report a missing value
MissingDataErrors ==
    {[exc |-> "ValueError", line |-> n] : n \in {318, 381, 401}}

\* C21 (as claimed): when a data query has yielded a null value, the next
\* step is the failure of the group with MissingData, caught by the group's
\* except clause, and no record is added.
C21_Original ==
    [][NullDataQuery
       => (/\ warnings' = Append(warnings, GroupOrder[group])
           /\ Len(caught') = Len(caught) + 1
           /\ Last(caught') \in MissingDataErrors
           /\ mqtt_msgs' = mqtt_msgs)]_vars

\* C21 (amended): when the third attempt of a data query has yielded a null
\* value, the next step is the failure of the group with the ValueError of
\* query_command (no valid response), caught by the group's except clause,
\* and no record is added; a null value never reaches the rest of a query
\* function, so no group ever fails with a "Could not get" ValueError or
\* with the TypeError of a subscript of None.
C21_NullValueFailsQuery ==
    /\ [][NullDataQuery
          => (/\ warnings' = Append(warnings, GroupOrder[group])
              /\ caught' = Append(caught, [exc |-> "ValueError", line |-> 191])
              /\ mqtt_msgs' = mqtt_msgs
              /\ handler' = ""
              /\ gstep' = 0)]_vars
    /\ [](\A i \in 1..Len(raws) : raws[i].t # "none")
    /\ [](\A i \in 1..Len(caught) :
             caught[i] \notin MissingDataErrors /\ caught[i].exc # "TypeError")
    /\ [](Len(caught) = Len(warnings))

\* C21 witness: the odometer query has yielded a null value three times
C21_Witness ==
    /\ NullDataQuery
    /\ command = "cmd_odometer"
    /\ \A i \in 1..3 : qc_calls[i].response.value.t = "none" /\ ~qc_calls[i].raises

\* obd_connect has returned or raised
ConnectOver == pc \notin {"idle", "start", "connect"}

\* the attempts of obd_connect that did not end in CAR_CONNECTED
FailedAttempts == {k \in 1..Len(conns) : conns[k].status # CAR_CONNECTED}

\* C28: obd_connect makes 1 to 3 attempts and none after one that ended in
\* CAR_CONNECTED; it has slept k seconds after the k-th failed attempt for
\* k = 1, 2 and not after the third; it returns the connection of its last
\* attempt, whose status is CAR_CONNECTED, and raises ConnectionError when and
\* only when three attempts have failed.
C28_ConnectAttempts ==
    /\ Len(conns) <= MAX_ATTEMPTS
    /\ connection_count = Len(conns)
    /\ \A k \in 1..(Len(conns) - 1) : k \in FailedAttempts
    /\ oc_sleeps = [k \in FailedAttempts \cap {1, 2} |-> k]
    /\ ConnectOver
       => (/\ Len(conns) >= 1
           /\ IF Cardinality(FailedAttempts) = MAX_ATTEMPTS
              THEN connection = 0 /\ handler = "ConnectionError"
              ELSE /\ connection = Len(conns)
                   /\ conns[connection].status = CAR_CONNECTED
                   /\ handler # "ConnectionError")

\* C28 witness: obd_connect has returned the connection of its third attempt,
\* after two failed attempts and sleeps of 1 and 2 seconds
C28_Witness ==
    /\ pc = "setup"
    /\ Len(conns) = 3
    /\ connection = 3
    /\ conns[3].status = CAR_CONNECTED
    /\ oc_sleeps = <<1, 2>>

\* the n bytes of v from offset i (counted from 0), the byte at the lowest
\* offset the most significant
RECURSIVE BigEndian(_, _, _)
BigEndian(v, i, n) ==
    IF n = 0 THEN 0
    ELSE v[i + 1] * 256 ^ (n - 1) + BigEndian(v, i + 1, n - 1)

\* a group's query function returns its record
Emits(g) == pc = "group" /\ GroupOrder[group] = g /\ Len(mqtt_msgs') = Len(mqtt_msgs) + 1

\* the multi-byte fields of the battery record, big-endian
BatteryBigEndian(p, v2101, v2105) ==
    /\ Len(v2101) >= 57
    /\ p.soh = BigEndian(v2105, 27, 2)
    /\ p.dcBatteryCurrent = BigEndian(v2101, 12, 2)
    /\ p.dcBatteryVoltage = BigEndian(v2101, 14, 2)
    /\ p.availableChargePower = BigEndian(v2101, 7, 2)
    /\ p.availableDischargePower = BigEndian(v2101, 9, 2)
    /\ p.cumulativeChargeCurrent = BigEndian(v2101, 32, 4)
    /\ p.cumulativeDischargeCurrent = BigEndian(v2101, 36, 4)
    /\ p.cumulativeEnergyCharged = BigEndian(v2101, 40, 4)
    /\ p.cumulativeEnergyDischarged = BigEndian(v2101, 44, 4)
    /\ p.cumulativeOperatingTime = BigEndian(v2101, 48, 4)
    /\ p.dcBatteryCellMinDeterioration = BigEndian(v2105, 30, 2)
    /\ p.driveMotorSpeed = BigEndian(v2101, 55, 2)

\* C23 (as claimed): every multi-byte integer field of an emitted record is
\* the big-endian value of its payload bytes, the byte at the lower offset the
\* most significant: the battery fields, the odometer (3 bytes from offset 9
\* of a payload that has them) and the VMCU vehicle speed (offsets 15, 16).
C23_BigEndianFields ==
    [][/\ Emits("battery")
          => BatteryBigEndian(Last(mqtt_msgs').payload, raws[3].b, raws[7].b)
       /\ (Emits("odometer") /\ Len(raws[4].b) >= 12)
          => Last(mqtt_msgs').payload.odometer = BigEndian(raws[4].b, 9, 3)
       /\ Emits("vmcu")
          => Last(mqtt_msgs').payload.mph_speed = BigEndian(raws[4].b, 15, 2)]_vars

-----------------------------------------------------------------------------
(* Claims about the end of a run, checked under SpecLive *)

\* C16: every run ends; it ends with exactly one publish call made, of the
\* list as it is at the end, and with the established connection closed;
\* the publish call is made in the finally clause, after which no group runs
\* and no command is queried; the connection is closed after the publish
\* call; a failed delivery is logged as an error, is not repeated and the
\* connection is closed all the same.
C16_PublishAndClose ==
    /\ <>(pc = "done")
    /\ [](pc = "done"
           => (/\ Len(published) = 1
               /\ published[1].msgs = mqtt_msgs
               /\ connection # 0 => conns[connection].closed))
    /\ [](Len(published) <= 1)
    /\ [](\A k \in 1..Len(published) :
             published[k].log = IF published[k].delivered THEN "info" ELSE "error")
    /\ []((connection # 0 /\ conns[connection].closed) => Len(published) = 1)
    /\ [][published' # published => pc = "finally"]_vars
    /\ [][published # <<>>
           => UNCHANGED <<published, mqtt_msgs, executed, warnings, caught, handler, group,
                          gstep, raws, qc_vars>>]_vars

\* C16 witness: a run ended by an exception that reached the outer try, its
\* delivery failed and its connection closed
C16_Witness ==
    /\ pc = "done"
    /\ handler = "Exception"
    /\ executed # <<>>
    /\ Len(published) = 1
    /\ ~published[1].delivered
    /\ connection # 0
    /\ conns[connection].closed

-----------------------------------------------------------------------------
(* Claims about query_command, checked under SpecQuery *)

\* query_command has returned or raised
QueryOver == qc_pc \in {"returned", "raised"}

\* an attempt is valid when connection.query did not raise and returned a
\* response whose value is not null, not empty and not "?" or "NO DATA"
AttemptValid(o) ==
    /\ ~o.raises
    /\ ~o.response.null
    /\ o.response.value.t # "none"
    /\ o.response.value # Str("")
    /\ o.response.value # Bytes(<<>>)
    /\ o.response.value # Str("?")
    /\ o.response.value # Str("NO DATA")

\* the first n attempts were all invalid
AllInvalid(n) == \A i \in 1..n : ~AttemptValid(qc_calls[i])

\* C2 (as claimed): when the first N attempts (N = 1 or 2) are invalid,
\* because the call raised or returned a null, empty or sentinel value, and
\* attempt N + 1 is valid, query_command returns the response of attempt N + 1.
C2_RetryThenSuccess ==
    \A n \in {1, 2} :
        (/\ QueryOver
         /\ Len(qc_calls) > n
         /\ AllInvalid(n)
         /\ AttemptValid(qc_calls[n + 1]))
        => (qc_pc = "returned" /\ cmd_response = qc_calls[n + 1].response)

\* C3 (as claimed): a call of query_command makes 1 to 3 transport calls, none
\* after a valid response, and raises exactly when it made 3 calls and all 3
\* were invalid.
C3_AttemptsBounded ==
    QueryOver =>
        /\ Len(qc_calls) \in 1..MAX_ATTEMPTS
        /\ AllInvalid(Len(qc_calls) - 1)
        /\ qc_pc = "raised" <=> (Len(qc_calls) = MAX_ATTEMPTS /\ AllInvalid(MAX_ATTEMPTS))

\* C4 (as claimed): the k-th sleep follows attempt k and lasts k seconds, for
\* k = 1, 2 only; there is one after each invalid attempt that leaves attempts,
\* and none after a valid response or after the third attempt.
C4_Backoff ==
    /\ \A j \in 1..Len(qc_sleeps) :
          /\ qc_sleeps[j].after = j
          /\ qc_sleeps[j].seconds = j
          /\ j < MAX_ATTEMPTS
          /\ ~AttemptValid(qc_calls[j])
    /\ \A k \in 1..(MAX_ATTEMPTS - 1) :
          (Len(qc_calls) >= k /\ AllInvalid(k)) => Len(qc_sleeps) >= k

\* C5 (as claimed): a response query_command returns is not null and its
\* value is not null, not empty and not "?" or "NO DATA"; and an attempt whose
\* transport call raised is never counted as valid.
C5_ReturnedIsValidated ==
    /\ qc_pc = "returned" =>
          (/\ Len(qc_calls) > 0
           /\ AttemptValid(qc_calls[Len(qc_calls)])
           /\ cmd_response = qc_calls[Len(qc_calls)].response)
    /\ (Len(qc_calls) > 0 /\ qc_calls[Len(qc_calls)].raises) => ~valid_response

\* C24 (as claimed): when query_command has returned or raised, its log holds
\* a message for every attempt it made, the valid one and each invalid one,
\* the third invalid attempt included.
C24_EveryAttemptLogged ==
    QueryOver
    => \A k \in 1..Len(qc_calls) : \E i \in 1..Len(qc_log) : qc_log[i].attempt = k

\* an attempt in which connection.query raised
SomeAttemptRaised == \E k \in 1..Len(qc_calls) : qc_calls[k].raises

\* C27: no exception of connection.query leaves query_command: the attempt
\* that raised counts as invalid, query_command raises at its own raise
\* statement only (NoValidResponse, after MAX_ATTEMPTS attempts with no valid
\* response), and a call in which an attempt raised ends in NoValidResponse
\* after all its attempts and never returns before.
C27_TransportErrorsAbsorbed ==
    /\ qc_pc \in {"idle", "loop", "returned", "raised"}
    /\ (qc_pc = "loop" /\ Len(qc_calls) > 0 /\ Last(qc_calls).raises)
       => (~valid_response /\ command_count = Len(qc_calls))
    /\ qc_pc = "raised"
       => (~valid_response /\ command_count = MAX_ATTEMPTS /\ Len(qc_calls) = MAX_ATTEMPTS)
    /\ (QueryOver /\ SomeAttemptRaised)
       => (qc_pc = "raised" /\ Len(qc_calls) = MAX_ATTEMPTS)

\* C27 witness: connection.query raised in the first attempt, two more
\* attempts were made and query_command raised NoValidResponse
C27_Witness ==
    /\ qc_pc = "raised"
    /\ Len(qc_calls) = MAX_ATTEMPTS
    /\ qc_calls[1].raises
    /\ ~qc_calls[2].raises
    /\ Len(qc_sleeps) = 2

====
